---- MODULE Spec2Model ----
(***************************************************************************)
(* MailShield analysis server (src/server.js): the POST /api/analyze       *)
(* handler and the helpers it calls, as a state machine over a set of      *)
(* in-flight requests.                                                     *)
(*                                                                         *)
(* JavaScript strings are TLA+ strings (TLC evaluates Len, \o and SubSeq   *)
(* on them).  The e-mail text, which may be longer than 30,000 characters, *)
(* is the string  "x" repeated pad times, followed by tail :               *)
(* [pad |-> n, tail |-> s].  A handler runs without interruption between   *)
(* two awaits, so one action is the code from one await to the next.       *)
(***************************************************************************)
EXTENDS Integers, Sequences, FiniteSets, TLC

\* ------------------------------------------------------------------ bounds
MaxReqs == 2          \* requests in flight at once
ExtraLinks == 2       \* links beyond the 50th in the oversized link list
ExtraIssues == 5      \* unfiltered grammar issues beyond the threshold
ExtraText == 10       \* characters of padding beyond the 30,000th in the oversized text

\* ------------------------------------------------- constants of the program
LINK_LIMIT == 50
TEXT_LIMIT == 30000
SNIPPET_LIMIT == 200
MIN_GRAMMAR_TEXT == 10
WARNING_THRESHOLD == 15
MIN_MESSAGE == 5
MIN_CONTEXT == 10

Reqs == 1..MaxReqs

\* ---------------------------------------------------------- string helpers
UPPER == "ABCDEFGHIJKLMNOPQRSTUVWXYZ"
LOWER == "abcdefghijklmnopqrstuvwxyz"

CharAt(s, i) == SubSeq(s, i, i)

LowerChar(c) ==
  IF \E i \in 1..Len(UPPER) : CharAt(UPPER, i) = c
  THEN CharAt(LOWER, CHOOSE i \in 1..Len(UPPER) : CharAt(UPPER, i) = c)
  ELSE c

RECURSIVE toLowerCase(_)
toLowerCase(s) ==
  IF Len(s) = 0 THEN ""
  ELSE LowerChar(CharAt(s, 1)) \o toLowerCase(SubSeq(s, 2, Len(s)))

\* String.prototype.includes, for a non-empty t
includes(s, t) ==
  \E i \in 1..(Len(s) - Len(t) + 1) : SubSeq(s, i, i + Len(t) - 1) = t

endsWith(s, t) ==
  Len(s) >= Len(t) /\ SubSeq(s, Len(s) - Len(t) + 1, Len(s)) = t

IsSpace(c) == c = " "

RECURSIVE trimStart(_)
trimStart(s) ==
  IF Len(s) > 0 /\ IsSpace(CharAt(s, 1)) THEN trimStart(SubSeq(s, 2, Len(s))) ELSE s

RECURSIVE trimEnd(_)
trimEnd(s) ==
  IF Len(s) > 0 /\ IsSpace(CharAt(s, Len(s))) THEN trimEnd(SubSeq(s, 1, Len(s) - 1)) ELSE s

trim(s) == trimEnd(trimStart(s))

\* Array.prototype.slice(0, n)
sliceSeq(a, n) == SubSeq(a, 1, IF Len(a) < n THEN Len(a) ELSE n)

\* Array.prototype.join
RECURSIVE join(_, _)
join(a, sep) ==
  IF Len(a) = 0 THEN ""
  ELSE IF Len(a) = 1 THEN a[1]
  ELSE a[1] \o sep \o join(Tail(a), sep)

\* Array.from(new Set(a)): the first occurrence of every value, in order
RECURSIVE unique(_)
unique(a) ==
  IF Len(a) = 0 THEN << >>
  ELSE LET front == unique(SubSeq(a, 1, Len(a) - 1))
           last == a[Len(a)]
       IN IF \E i \in 1..Len(front) : front[i] = last THEN front ELSE Append(front, last)

\* ------------------------------------------------------------ e-mail text
TextLength(t) == t.pad + Len(t.tail)

\* String.prototype.slice(0, n) on "x"^pad \o tail
sliceText(t, n) ==
  IF n <= t.pad THEN [pad |-> n, tail |-> ""]
  ELSE [pad |-> t.pad, tail |-> sliceSeq(t.tail, n - t.pad)]

toLowerCaseText(t) == [pad |-> t.pad, tail |-> toLowerCase(t.tail)]

RECURSIVE Repeat(_, _)
Repeat(c, n) == IF n <= 0 THEN "" ELSE c \o Repeat(c, n - 1)

\* includes on "x"^pad \o tail: an occurrence of p spans Len(p) characters, so
\* of a run of x only the last Len(p) can belong to one that reaches the tail.
includesText(t, p) ==
  includes(Repeat("x", IF t.pad < Len(p) THEN t.pad ELSE Len(p)) \o t.tail, p)

\* -------------------------------------------------- filterGrammarIssues
SuppressedRules ==
  { "MORFOLOGIK_RULE_EN_US", "COMMA_PARENTHESIS_WHITESPACE", "SEND_AN_EMAIL",
    "MISSING_COMMA_AFTER_YEAR", "EN_DASH_RULE", "EN_QUOTES" }

SeriousIssue(i) ==
  /\ i.severity = "error"
  /\ Len(i.message) > 0 /\ Len(trim(i.message)) > MIN_MESSAGE
  /\ Len(i.context) > 0 /\ Len(trim(i.context)) > MIN_CONTEXT
  /\ i.ruleId \notin SuppressedRules

\* issues is the body of the grammar service's reply: null, or an object that
\* may lack the match list.
filterGrammarIssues(issues) ==
  IF issues.isNull \/ ~issues.hasMatches THEN << >>
  ELSE SelectSeq(issues.matches, SeriousIssue)

\* --------------------------------------------------- heuristicLinkCheck
suspiciousTokens ==
  << "verify", "login", "confirm", "secure", "account", "update", "reset",
     "bank", "paypal", "signin", "claim", "won", "congrats" >>

oddTlds == << ".ru", ".cn", ".tk", ".ml", ".ga", ".cf", ".gq" >>

ContainsReason(tok) == "contains \"" \o tok \o "\""
TldReason(t) == "tld " \o t

RECURSIVE TokenReasons(_, _)
TokenReasons(lower, toks) ==
  IF Len(toks) = 0 THEN << >>
  ELSE (IF includes(lower, toks[1]) THEN << ContainsReason(toks[1]) >> ELSE << >>)
       \o TokenReasons(lower, Tail(toks))

RECURSIVE TldReasons(_, _)
TldReasons(lower, tlds) ==
  IF Len(tlds) = 0 THEN << >>
  ELSE (IF endsWith(lower, tlds[1]) THEN << TldReason(tlds[1]) >> ELSE << >>)
       \o TldReasons(lower, Tail(tlds))

heuristicLinkCheck(url) ==
  LET lower == toLowerCase(url)
  IN TokenReasons(lower, suspiciousTokens)
     \o (IF includes(lower, "xn--") THEN << "punycode / idn suspicious" >> ELSE << >>)
     \o TldReasons(lower, oddTlds)

\* ------------------------------------------- replies of the two services
\* What axios.post yields for the threat-list call: an error (transport
\* failure, timeout, non-2xx), or a 2xx reply whose body carries matches
\* (the empty list also stands for a body whose match list is missing or no
\* array: the handler skips all three alike).  A match is
\* null or an object; a missing or empty member is the empty string.
NoReply == [kind |-> "none", matches |-> << >>, error |-> "", data |-> [isNull |-> TRUE]]
SBError == [kind |-> "error", matches |-> << >>, error |-> "timeout of 15000ms exceeded",
            data |-> [isNull |-> TRUE]]
SBOk(ms) == [kind |-> "ok", matches |-> ms, error |-> "", data |-> [isNull |-> TRUE]]

Match(threatUrl, threatEntryUrl, threatType) ==
  [isNull |-> FALSE, threatUrl |-> threatUrl, threatEntryUrl |-> threatEntryUrl,
   threatType |-> threatType]
NullMatch == [isNull |-> TRUE, threatUrl |-> "", threatEntryUrl |-> "", threatType |-> ""]

\* What axios.post yields for the grammar call.
LTError(e) == [kind |-> "error", matches |-> << >>, error |-> e, data |-> [isNull |-> TRUE]]
LTOk(d) == [kind |-> "ok", matches |-> << >>, error |-> "", data |-> d]
NullData == [isNull |-> TRUE, hasMatches |-> FALSE, matches |-> << >>]
NoMatchesData == [isNull |-> FALSE, hasMatches |-> FALSE, matches |-> << >>]
MatchesData(is) == [isNull |-> FALSE, hasMatches |-> TRUE, matches |-> is]

\* ------------------------------------------------ googleSafeBrowsingLookup
\* The network calls one lookup issues: none without a credential.
googleSafeBrowsingCallsAlways(key, urls) == << urls >>

googleSafeBrowsingCalls(key, urls) ==
  IF key = "" THEN << >> ELSE << urls >>

\* How the lookup settles, given what the network call yielded: threw says that
\* its promise rejects, which the try/catch around axios.post rules out.
googleSafeBrowsingLookup(key, net) ==
  IF key = "" THEN [threw |-> FALSE, success |-> TRUE, matches |-> << >>, error |-> ""]
  ELSE IF net.kind = "ok"
  THEN [threw |-> FALSE, success |-> TRUE, matches |-> net.matches, error |-> ""]
  ELSE [threw |-> FALSE, success |-> FALSE, matches |-> << >>, error |-> net.error]

\* ------------------------------------------------------- languageToolCheck
languageToolCheckUncaught(net) ==
  IF net.kind = "ok"
  THEN [threw |-> FALSE, success |-> TRUE, data |-> net.data, error |-> ""]
  ELSE [threw |-> TRUE, success |-> FALSE, data |-> NullData, error |-> net.error]

\* How the check settles: threw says that its promise rejects, which the
\* try/catch around the whole body rules out.
languageToolCheck(net) ==
  IF net.kind = "ok"
  THEN [threw |-> FALSE, success |-> TRUE, data |-> net.data, error |-> ""]
  ELSE [threw |-> FALSE, success |-> FALSE, data |-> NullData, error |-> net.error]

\* -------------------------------------------------------- the handler's steps
NULL == [null |-> TRUE]

MissingPayloadUndefinedOnly(body) == body.payload.kind = "undefined"

\* !payload
MissingPayload(body) == body.payload.kind # "object"

LinkScannerOn(options) == options.present /\ options.linkScanner

\* options && options.grammarChecker && text && text.length >= 10
GrammarWanted(options, text) ==
  /\ options.present /\ options.grammarChecker
  /\ TextLength(text) # 0
  /\ TextLength(text) >= MIN_GRAMMAR_TEXT

NormLinksUncut(payload) == payload.links

NormLinks(payload) == sliceSeq(payload.links, LINK_LIMIT)
NormText(payload) == sliceText(payload.text, TEXT_LIMIT)
NormSnippet(payload) ==
  IF TextLength(payload.snippet) # 0 THEN payload.snippet
  ELSE sliceText(NormText(payload), SNIPPET_LIMIT)

\* for (const url of links) ... heuristicResults.push({ url, reasons })
RECURSIVE HeuristicResults(_)
HeuristicResults(links) ==
  IF Len(links) = 0 THEN << >>
  ELSE (IF Len(heuristicLinkCheck(links[1])) # 0
        THEN << [url |-> links[1], reasons |-> heuristicLinkCheck(links[1])] >>
        ELSE << >>)
       \o HeuristicResults(Tail(links))

EntryUrl(m) ==
  IF ~m.isNull /\ m.threatUrl # "" THEN m.threatUrl
  ELSE IF ~m.isNull /\ m.threatEntryUrl # "" THEN m.threatEntryUrl
  ELSE ""

\* m.threatType of a null m throws a TypeError
MatchThrows(m) == m.isNull

MatchEvidence(m) ==
  [url |-> IF EntryUrl(m) # "" THEN EntryUrl(m) ELSE "(unknown)",
   reasons |-> << "Google Safe Browsing match: "
                  \o (IF m.threatType # "" THEN m.threatType ELSE "THREAT") >>]

\* sb.matches.forEach(...): the entries pushed, and whether the loop threw.
RECURSIVE ThreatEvidence(_)
ThreatEvidence(matches) ==
  IF Len(matches) = 0 THEN [threw |-> FALSE, pushed |-> << >>]
  ELSE IF MatchThrows(matches[1]) THEN [threw |-> TRUE, pushed |-> << >>]
  ELSE LET rest == ThreatEvidence(Tail(matches))
       IN [threw |-> rest.threw, pushed |-> << MatchEvidence(matches[1]) >> \o rest.pushed]

\* grammar, from the grammar client's result; the members that the spread of
\* lt.data copies beside matches are left out
GrammarField(lt) ==
  IF lt.success THEN [matches |-> filterGrammarIssues(lt.data)]
  ELSE [error |-> IF lt.error # "" THEN lt.error ELSE "LanguageTool error"]

phishingPhrases ==
  << "you won", "claim your", "click here", "verify your account",
     "update your account", "urgent", "congratulations", "prize", "winner" >>

FoundPhrases(text) ==
  LET textLow == toLowerCaseText(text)
      hit(p) == includesText(textLow, p)
  IN SelectSeq(phishingPhrases, hit)

OverallStatusAtThreshold(suspiciousLinks, foundPhrases, grammar) ==
  IF Len(suspiciousLinks) > 0 \/ Len(foundPhrases) > 0 THEN "suspicious"
  ELSE IF "matches" \in DOMAIN grammar /\ Len(grammar.matches) >= WARNING_THRESHOLD
       THEN "warning"
  ELSE "safe"

OverallStatusLinksOnly(suspiciousLinks, foundPhrases, grammar) ==
  IF Len(suspiciousLinks) > 0 THEN "suspicious"
  ELSE IF "matches" \in DOMAIN grammar /\ Len(grammar.matches) > WARNING_THRESHOLD
       THEN "warning"
  ELSE "safe"

OverallStatus(suspiciousLinks, foundPhrases, grammar) ==
  IF Len(suspiciousLinks) > 0 \/ Len(foundPhrases) > 0 THEN "suspicious"
  ELSE IF "matches" \in DOMAIN grammar /\ Len(grammar.matches) > WARNING_THRESHOLD
       THEN "warning"
  ELSE "safe"

\* map.get(url) after the forEach: the reasons of every entry for url, in order
RECURSIVE ReasonsOf(_, _)
ReasonsOf(suspiciousLinks, url) ==
  IF Len(suspiciousLinks) = 0 THEN << >>
  ELSE (IF suspiciousLinks[1].url = url THEN suspiciousLinks[1].reasons ELSE << >>)
       \o ReasonsOf(Tail(suspiciousLinks), url)

DisplayReasonsRepeated(reasons) == join(reasons, ", ")

DisplayReasons(reasons) == join(unique(reasons), ", ")

Deduplicate(suspiciousLinks) ==
  LET keys == unique([i \in 1..Len(suspiciousLinks) |-> suspiciousLinks[i].url])
  IN [k \in 1..Len(keys) |->
        [url |-> keys[k], reasons |-> DisplayReasons(ReasonsOf(suspiciousLinks, keys[k]))]]

NoResponse == [status |-> 0]
MissingPayloadResponse ==
  [status |-> 400, json |-> [success |-> FALSE, error |-> "Missing payload"]]
FaultResponse(message) ==
  [status |-> 500, json |-> [success |-> FALSE, error |-> message]]

\* lines 137-169, from the locals fr and the grammar value
Result(fr, grammar) ==
  LET foundPhrases == FoundPhrases(fr.text)
  IN [status |-> 200,
      json |-> [success |-> TRUE,
                payload |-> [subject |-> fr.subject, snippet |-> fr.snippet,
                             textLength |-> TextLength(fr.text)],
                suspiciousLinks |-> Deduplicate(fr.suspiciousLinks),
                grammar |-> grammar,
                foundPhrases |-> foundPhrases,
                overall |-> OverallStatus(fr.suspiciousLinks, foundPhrases, grammar)]]

\* ----------------------------------------------------------------- inputs
U_ok == "https://example.org/a"
U_bank == "http://my-BANK.example.ru"
U_login == "http://paypal-login.tk/x"

Text(pad, tail) == [pad |-> pad, tail |-> tail]
NoText == Text(0, "")

\* LINK_LIMIT - 1 harmless links, then a flagged one: the last one kept
BoundaryLinks == [i \in 1..LINK_LIMIT |-> IF i = LINK_LIMIT THEN U_bank ELSE U_ok]
\* LINK_LIMIT harmless links, then flagged ones beyond the limit
OversizedLinks == [i \in 1..(LINK_LIMIT + ExtraLinks) |-> IF i > LINK_LIMIT THEN U_login ELSE U_ok]

Payload(links, text, subject, snippet) ==
  [kind |-> "object", links |-> links, text |-> text, subject |-> subject,
   snippet |-> snippet]
UndefinedPayload == [kind |-> "undefined", links |-> << >>, text |-> NoText,
                     subject |-> "", snippet |-> NoText]
NullPayload == [kind |-> "null", links |-> << >>, text |-> NoText,
                subject |-> "", snippet |-> NoText]

Payloads ==
  { Payload(<< >>, NoText, "", NoText),
    Payload(<< U_ok >>, Text(0, "123456789"), "Hi", NoText),
    Payload(<< U_ok >>, Text(0, "1234567890"), "Hi", Text(0, "short")),
    Payload(<< U_bank >>, Text(0, "Dear customer, hello."), "", NoText),
    Payload(<< U_bank, U_ok, U_bank >>, Text(0, "URGENT: Click Here, winner!"), "", NoText),
    Payload(<< U_login >>, Text(0, "You Won"), "", NoText),
    Payload(BoundaryLinks, Text(0, "1234567890"), "", NoText),
    Payload(OversizedLinks, Text(0, "1234567890"), "", NoText),
    Payload(<< >>, Text(TEXT_LIMIT, "urgent"), "", NoText),
    Payload(<< >>, Text(TEXT_LIMIT - 3, "urgent"), "", NoText),
    Payload(<< >>, Text(TEXT_LIMIT - 6, "urgent prize"), "", NoText),
    Payload(OversizedLinks, Text(TEXT_LIMIT + ExtraText, "winner"), "", NoText),
    UndefinedPayload, NullPayload }

NoOptions == [present |-> FALSE, linkScanner |-> FALSE, grammarChecker |-> FALSE]
Opts(l, g) == [present |-> TRUE, linkScanner |-> l, grammarChecker |-> g]
AllOptions == { NoOptions } \cup { Opts(l, g) : l \in BOOLEAN, g \in BOOLEAN }

Bodies == [payload : Payloads, options : AllOptions]

SBReplies ==
  { SBError,
    SBOk(<< >>),
    SBOk(<< Match(U_bank, "", "MALWARE") >>),
    SBOk(<< Match("", U_ok, "SOCIAL_ENGINEERING") >>),
    SBOk(<< Match("", "", "") >>),
    SBOk(<< Match(U_bank, "", "MALWARE"), Match(U_ok, U_bank, "UNWANTED_SOFTWARE"),
            Match("", U_bank, "MALWARE"), Match("", "", "MALWARE") >>),
    SBOk(<< NullMatch >>),
    SBOk(<< Match(U_ok, "", "MALWARE"), NullMatch >>) }

Issue(severity, message, context, ruleId) ==
  [severity |-> severity, message |-> message, context |-> context, ruleId |-> ruleId]
GoodIssue == Issue("error", "Possible agreement error", "...he go to school...", "HE_VERB_AGR")
\* issues the filter drops, one for each of its tests
DroppedIssues ==
  << Issue("warning", "Possible agreement error", "...he go to school...", "HE_VERB_AGR"),
     Issue("error", "  Typo   ", "...he go to school...", "HE_VERB_AGR"),
     Issue("error", "", "...he go to school...", "HE_VERB_AGR"),
     Issue("error", "Possible agreement error", "   he go to    ", "HE_VERB_AGR"),
     Issue("error", "Possible spelling mistake", "...he go to school...", "MORFOLOGIK_RULE_EN_US"),
     Issue("error", "Use a dash in ranges", "...pages 3-4 of the...", "EN_DASH_RULE") >>
Good(n) == [i \in 1..n |-> GoodIssue]

LTReplies ==
  { LTError("timeout of 20000ms exceeded"),
    LTError(""),
    LTOk(NullData),
    LTOk(NoMatchesData),
    LTOk(MatchesData(Good(1) \o DroppedIssues)),
    LTOk(MatchesData(Good(WARNING_THRESHOLD))),
    LTOk(MatchesData(Good(WARNING_THRESHOLD - 1) \o DroppedIssues \o Good(1))),
    LTOk(MatchesData(Good(WARNING_THRESHOLD + 1))),
    LTOk(MatchesData(DroppedIssues \o Good(WARNING_THRESHOLD + ExtraIssues))) }

\* GOOGLE_SAFE_BROWSING_API_KEY as the environment may hold it
EnvKeys == { "", "  ", " AIzaSy-key " }

\* the inputs of the concurrent specification
ConcBodies ==
  { [payload |-> Payload(<< U_bank >>, Text(0, "URGENT: act now"), "A", NoText),
     options |-> Opts(TRUE, TRUE)],
    [payload |-> Payload(<< U_ok >>, Text(0, "1234567890"), "B", NoText),
     options |-> Opts(TRUE, TRUE)],
    [payload |-> UndefinedPayload, options |-> Opts(TRUE, TRUE)] }
ConcSBReplies == { SBError, SBOk(<< Match(U_ok, "", "MALWARE") >>), SBOk(<< NullMatch >>) }
ConcLTReplies == { LTError(""), LTOk(MatchesData(Good(WARNING_THRESHOLD + 1))) }

\* ------------------------------------------------------------------- state
VARIABLES
  GOOGLE_KEY,   \* the credential, read once at start
  pc,           \* where each request's handler is: idle, awaitSB, awaitLT, done
  body,         \* req.body of each request
  frame,        \* the handler's locals, one record for each activation
  sbSent,       \* the threat-list calls issued for each request (their url lists)
  ltSent,       \* the grammar calls issued for each request (their texts)
  sbReply,      \* what the threat-list call of each request yielded
  ltReply,      \* what the grammar call of each request yielded
  res           \* the response sent for each request

vars == << GOOGLE_KEY, pc, body, frame, sbSent, ltSent, sbReply, ltReply, res >>

\* the value of sb before the lookup settles
NoLookup == [threw |-> FALSE, success |-> FALSE, matches |-> << >>, error |-> "pending"]

EmptyFrame ==
  [options |-> NoOptions, links |-> << >>, text |-> NoText, subject |-> "",
   snippet |-> NoText, heuristicResults |-> << >>, suspiciousLinks |-> << >>,
   sb |-> NoLookup]

FrameShared(r) == 1

\* the locals of the handler belong to the activation that serves request r
Frame(r) == r

Init ==
  /\ GOOGLE_KEY \in { trim(k) : k \in EnvKeys }
  /\ pc = [r \in Reqs |-> "idle"]
  /\ body = [r \in Reqs |-> [payload |-> UndefinedPayload, options |-> NoOptions]]
  /\ frame = [r \in Reqs |-> EmptyFrame]
  /\ sbSent = [r \in Reqs |-> << >>]
  /\ ltSent = [r \in Reqs |-> << >>]
  /\ sbReply = [r \in Reqs |-> NoReply]
  /\ ltReply = [r \in Reqs |-> NoReply]
  /\ res = [r \in Reqs |-> NoResponse]

\* res.json / res.status(...).json: the handler returns
Respond(r, response) ==
  /\ pc' = [pc EXCEPT ![r] = "done"]
  /\ res' = [res EXCEPT ![r] = response]

\* lines 126-169, with the locals fr: the grammar call is issued and awaited,
\* or the result is built without a grammar value
GrammarStage(r, fr) ==
  IF GrammarWanted(fr.options, fr.text)
  THEN /\ ltSent' = [ltSent EXCEPT ![r] = Append(@, fr.text)]
       /\ pc' = [pc EXCEPT ![r] = "awaitLT"]
       /\ UNCHANGED res
  ELSE /\ UNCHANGED ltSent
       /\ Respond(r, Result(fr, NULL))

\* lines 92-111: the request arrives and the handler runs to its first await
Receive(r, b) ==
  /\ pc[r] = "idle"
  /\ body' = [body EXCEPT ![r] = b]
  /\ IF MissingPayload(b)
     THEN /\ Respond(r, MissingPayloadResponse)
          /\ UNCHANGED << frame, sbSent, ltSent >>
     ELSE IF b.payload.kind # "object"
     THEN \* payload.links of null or undefined throws; the catch of line 171
          /\ Respond(r, FaultResponse("Cannot read properties"))
          /\ UNCHANGED << frame, sbSent, ltSent >>
     ELSE LET fr == [options |-> b.options,
                     links |-> NormLinks(b.payload),
                     text |-> NormText(b.payload),
                     subject |-> b.payload.subject,
                     snippet |-> NormSnippet(b.payload),
                     heuristicResults |->
                       IF LinkScannerOn(b.options)
                       THEN HeuristicResults(NormLinks(b.payload)) ELSE << >>,
                     suspiciousLinks |-> << >>,
                     sb |-> NoLookup]
          IN /\ frame' = [frame EXCEPT ![Frame(r)] = fr]
             /\ IF LinkScannerOn(b.options)
                THEN /\ sbSent' = [sbSent EXCEPT
                                     ![r] = @ \o googleSafeBrowsingCalls(GOOGLE_KEY, fr.links)]
                     /\ pc' = [pc EXCEPT ![r] = "awaitSB"]
                     /\ UNCHANGED << ltSent, res >>
                ELSE /\ UNCHANGED sbSent
                     /\ GrammarStage(r, fr)
  /\ UNCHANGED << GOOGLE_KEY, sbReply, ltReply >>

\* lines 111-135: the lookup settles with net and the handler runs to its next
\* await, or to its response
SafeBrowsingReturns(r, net) ==
  /\ pc[r] = "awaitSB"
  /\ IF Len(sbSent[r]) = 0 THEN net = NoReply ELSE net # NoReply
  /\ sbReply' = [sbReply EXCEPT ![r] = net]
  /\ LET sb == googleSafeBrowsingLookup(GOOGLE_KEY, net)
         ev == ThreatEvidence(sb.matches)
         cur == frame[Frame(r)]
         fr == [cur EXCEPT !.sb = sb, !.suspiciousLinks =
                  IF sb.success /\ Len(sb.matches) # 0
                  THEN IF ev.threw THEN @ \o ev.pushed
                       ELSE @ \o ev.pushed \o cur.heuristicResults
                  ELSE @ \o cur.heuristicResults]
     IN IF sb.threw
        THEN \* a rejected await is caught at line 171
             /\ Respond(r, FaultResponse(sb.error))
             /\ UNCHANGED << frame, ltSent >>
        ELSE /\ frame' = [frame EXCEPT ![Frame(r)] = fr]
             /\ IF sb.success /\ Len(sb.matches) # 0 /\ ev.threw
                THEN /\ Respond(r, FaultResponse("Cannot read properties of null"))
                     /\ UNCHANGED ltSent
                ELSE GrammarStage(r, fr)
  /\ UNCHANGED << GOOGLE_KEY, body, sbSent, ltReply >>

\* lines 129-169: the grammar call settles with net and the handler responds
LanguageToolReturns(r, net) ==
  /\ pc[r] = "awaitLT"
  /\ ltReply' = [ltReply EXCEPT ![r] = net]
  /\ LET lt == languageToolCheck(net)
     IN IF lt.threw
        THEN Respond(r, FaultResponse(lt.error))   \* a rejected await, line 171
        ELSE Respond(r, Result(frame[Frame(r)], GrammarField(lt)))
  /\ UNCHANGED << GOOGLE_KEY, body, frame, sbSent, ltSent, sbReply >>

\* one request, every input
Next ==
  \/ \E b \in Bodies : Receive(1, b)
  \/ \E net \in SBReplies \cup { NoReply } : SafeBrowsingReturns(1, net)
  \/ \E net \in LTReplies : LanguageToolReturns(1, net)

Spec == Init /\ [][Next]_vars

\* MaxReqs requests in flight, their handlers interleaved at the awaits
NextConc ==
  \E r \in Reqs :
    \/ \E b \in ConcBodies : Receive(r, b)
    \/ \E net \in ConcSBReplies \cup { NoReply } : SafeBrowsingReturns(r, net)
    \/ \E net \in ConcLTReplies : LanguageToolReturns(r, net)

SpecConc == Init /\ [][NextConc]_vars

\* ================================================================ properties
Min(a, b) == IF a < b THEN a ELSE b

Locals(r) == frame[Frame(r)]
Succeeded(r) == res[r].status = 200
HasPayload(r) == pc[r] # "idle" /\ body[r].payload.kind = "object"
SBFailed(r) == sbReply[r].kind = "error"
LTFailed(r) == ltReply[r].kind = "error"

\* the issues of the grammar reply of r that pass every test of the filter
Surviving(r) ==
  LET d == ltReply[r].data
  IN IF ltReply[r].kind = "ok" /\ ~d.isNull /\ d.hasMatches
     THEN Cardinality({ i \in 1..Len(d.matches) : SeriousIssue(d.matches[i]) })
     ELSE 0

\* the number of places where q occurs in s
Occurrences(s, q) ==
  Cardinality({ i \in 1..(Len(s) - Len(q) + 1) : SubSeq(s, i, i + Len(q) - 1) = q })

\* the i-th character of the text "x"^pad \o tail
TextChar(t, i) == IF i <= t.pad THEN "x" ELSE CharAt(t.tail, i - t.pad)

\* phrase p occurs in the text t, in any case, and ends at or before character
\* n: wholly inside the run of x, or starting where it can reach the tail
OccursWithin(t, p, n) ==
  LET last == Min(TextLength(t), n) - Len(p) + 1
      first == IF t.pad - Len(p) + 2 > 1 THEN t.pad - Len(p) + 2 ELSE 1
  IN \/ /\ Min(t.pad, n) >= Len(p)
        /\ \A j \in 1..Len(p) : CharAt(p, j) = "x"
     \/ \E i \in first..last :
          \A j \in 1..Len(p) : LowerChar(TextChar(t, i + j - 1)) = CharAt(p, j)

\* s is the text made of the first characters of t
IsPrefixText(s, t) ==
  /\ s.pad <= t.pad
  /\ s.pad < t.pad => s.tail = ""
  /\ s.pad = t.pad => Len(s.tail) <= Len(t.tail) /\ s.tail = SubSeq(t.tail, 1, Len(s.tail))

\* C1: in every 200 response the verdict is suspicious when there is link
\* evidence or a matched phrase, else warning when a grammar result exists with
\* more than 15 surviving issues, else safe.
C1_VerdictPrecedence ==
  \A r \in Reqs : Succeeded(r) =>
    LET j == res[r].json
        evidence == Len(Locals(r).suspiciousLinks) >= 1 \/ Len(j.foundPhrases) >= 1
        volume == ltReply[r].kind = "ok" /\ Surviving(r) > 15
    IN /\ j.overall = (IF evidence THEN "suspicious"
                       ELSE IF volume THEN "warning" ELSE "safe")
       /\ (~evidence /\ Surviving(r) = 15) => j.overall = "safe"
       /\ (~evidence /\ Surviving(r) = 16) => j.overall = "warning"

C1_Witness ==
  \E r \in Reqs :
    /\ Succeeded(r) /\ Surviving(r) = 16
    /\ Len(Locals(r).suspiciousLinks) = 0 /\ Len(res[r].json.foundPhrases) = 0
    /\ res[r].json.overall = "warning"

\* C2: in every 200 response suspiciousLinks has exactly one entry for each url
\* of the evidence gathered, and its reasons string holds every reason given
\* for that url exactly once.
C2_OneEntryPerUrl ==
  \A r \in Reqs : Succeeded(r) =>
    LET gathered == Locals(r).suspiciousLinks
        final == res[r].json.suspiciousLinks
    IN /\ \A i \in 1..Len(gathered) :
            /\ Cardinality({ k \in 1..Len(final) : final[k].url = gathered[i].url }) = 1
            /\ \A k \in 1..Len(final) : final[k].url = gathered[i].url =>
                 \A q \in 1..Len(gathered[i].reasons) :
                   Occurrences(final[k].reasons, gathered[i].reasons[q]) = 1
       /\ \A k \in 1..Len(final) : \E i \in 1..Len(gathered) : gathered[i].url = final[k].url

C2_Witness ==
  \E r \in Reqs :
    /\ Succeeded(r)
    /\ Len(Locals(r).suspiciousLinks) > Len(res[r].json.suspiciousLinks)
    /\ \E k \in 1..Len(res[r].json.suspiciousLinks) :
         /\ res[r].json.suspiciousLinks[k].url = U_bank
         /\ res[r].json.suspiciousLinks[k].reasons =
              "Google Safe Browsing match: MALWARE, contains \"bank\", tld .ru"

\* C3: a failed threat-list or grammar call never ends the request with a 500:
\* the handler goes on and answers 200; after a failed threat-list call the
\* heuristic findings are reported and the grammar and phrase checks run; after
\* a failed grammar call grammar is an error marker and the evidence and the
\* verdict are those of the links and phrases.
C3_SoftFailure ==
  \A r \in Reqs :
    /\ (SBFailed(r) \/ LTFailed(r)) =>
         /\ pc[r] \in { "awaitLT", "done" }
         /\ pc[r] = "done" => Succeeded(r)
    /\ (SBFailed(r) /\ pc[r] = "done") =>
         /\ \A i \in 1..Len(Locals(r).links) :
              heuristicLinkCheck(Locals(r).links[i]) # << >> =>
                \E k \in 1..Len(res[r].json.suspiciousLinks) :
                  res[r].json.suspiciousLinks[k].url = Locals(r).links[i]
         /\ GrammarWanted(body[r].options, Locals(r).text) =>
              Len(ltSent[r]) = 1 /\ ltReply[r] # NoReply
         /\ \A k \in 1..Len(phishingPhrases) :
              OccursWithin(Locals(r).text, phishingPhrases[k], TEXT_LIMIT) =>
                \E q \in 1..Len(res[r].json.foundPhrases) :
                  res[r].json.foundPhrases[q] = phishingPhrases[k]
    /\ (LTFailed(r) /\ pc[r] = "done") =>
         LET j == res[r].json
         IN /\ DOMAIN j.grammar = { "error" } /\ j.grammar.error # ""
            /\ \A i \in 1..Len(Locals(r).suspiciousLinks) :
                 \E k \in 1..Len(j.suspiciousLinks) :
                   j.suspiciousLinks[k].url = Locals(r).suspiciousLinks[i].url
            /\ \A k \in 1..Len(phishingPhrases) :
                 OccursWithin(Locals(r).text, phishingPhrases[k], TEXT_LIMIT) <=>
                   \E q \in 1..Len(j.foundPhrases) : j.foundPhrases[q] = phishingPhrases[k]
            /\ j.overall = (IF Len(j.suspiciousLinks) > 0 \/ Len(j.foundPhrases) > 0
                            THEN "suspicious" ELSE "safe")

C3_Witness ==
  \E r \in Reqs :
    /\ SBFailed(r) /\ LTFailed(r) /\ Succeeded(r)
    /\ Len(res[r].json.suspiciousLinks) > 0
    /\ res[r].json.grammar = [error |-> "LanguageTool error"]

\* C4: for a request with a payload the grammar service is called, exactly
\* once, if and only if grammarChecker is on and the normalized text has 10
\* characters or more; when it is not called the grammar field is null.
C4_GrammarCalledIff ==
  \A r \in Reqs : (pc[r] = "done" /\ HasPayload(r)) =>
    LET wanted == /\ body[r].options.present /\ body[r].options.grammarChecker
                  /\ Min(TextLength(body[r].payload.text), TEXT_LIMIT) >= 10
    IN /\ Len(ltSent[r]) = (IF wanted THEN 1 ELSE 0)
       /\ (~wanted /\ Succeeded(r)) => res[r].json.grammar = NULL

\* C5: a request without a payload is answered 400 with success false, and
\* nothing is processed for it: no threat-list call, no grammar call, no result
\* fields.
C5_MissingPayloadRejected ==
  \A r \in Reqs : (pc[r] = "done" /\ body[r].payload.kind # "object") =>
    /\ res[r].status = 400
    /\ res[r].json.success = FALSE
    /\ DOMAIN res[r].json = { "success", "error" }
    /\ Len(sbSent[r]) = 0 /\ Len(ltSent[r]) = 0
    /\ sbReply[r] = NoReply /\ ltReply[r] = NoReply

C5_Witness ==
  \E r \in Reqs :
    /\ pc[r] = "done" /\ body[r].payload.kind = "null"
    /\ body[r].options = Opts(TRUE, TRUE)
    /\ res[r].status = 400

\* C6: one request issues at most one threat-list call, also after a failure,
\* and none without a credential: then the lookup settles with success and no
\* matches.
C6_AtMostOneLookup ==
  \A r \in Reqs :
    /\ Len(sbSent[r]) <= 1
    /\ GOOGLE_KEY = "" =>
         /\ Len(sbSent[r]) = 0
         /\ (pc[r] \in { "awaitLT", "done" } /\ HasPayload(r)
               /\ LinkScannerOn(body[r].options)) =>
              /\ Locals(r).sb.success /\ Locals(r).sb.matches = << >>
              /\ sbReply[r] = NoReply
    /\ (pc[r] \in { "awaitSB", "awaitLT", "done" } /\ HasPayload(r)
          /\ LinkScannerOn(body[r].options) /\ GOOGLE_KEY # "") => Len(sbSent[r]) = 1

C6_Witness ==
  \E r \in Reqs :
    /\ GOOGLE_KEY = "" /\ pc[r] = "done" /\ Succeeded(r)
    /\ LinkScannerOn(body[r].options) /\ Len(Locals(r).links) > 0
    /\ Locals(r).sb.success /\ Len(sbSent[r]) = 0

\* C7: the checks see the truncated input only: the threat-list call and the
\* heuristic scorer get the first 50 links, the grammar call gets the first
\* 30,000 characters, a phrase is reported only if it lies within them, and
\* textLength is at most 30,000.
C7_TruncatedFirst ==
  \A r \in Reqs : HasPayload(r) =>
    LET p == body[r].payload
    IN /\ \A c \in 1..Len(sbSent[r]) :
            /\ Len(sbSent[r][c]) = Min(Len(p.links), 50)
            /\ \A i \in 1..Len(sbSent[r][c]) : sbSent[r][c][i] = p.links[i]
       /\ \A h \in 1..Len(Locals(r).heuristicResults) :
            \E i \in 1..Min(Len(p.links), 50) : p.links[i] = Locals(r).heuristicResults[h].url
       /\ \A c \in 1..Len(ltSent[r]) :
            /\ TextLength(ltSent[r][c]) = Min(TextLength(p.text), 30000)
            /\ IsPrefixText(ltSent[r][c], p.text)
       /\ Succeeded(r) =>
            /\ res[r].json.payload.textLength <= 30000
            /\ \A q \in 1..Len(res[r].json.foundPhrases) :
                 OccursWithin(p.text, res[r].json.foundPhrases[q], 30000)

C7_Witness ==
  \E r \in Reqs :
    /\ Succeeded(r)
    /\ Len(body[r].payload.links) > 50 /\ TextLength(body[r].payload.text) > 30000
    /\ Len(sbSent[r]) = 1 /\ Len(sbSent[r][1]) = 50
    /\ Len(ltSent[r]) = 1 /\ TextLength(ltSent[r][1]) = 30000
    /\ res[r].json.payload.textLength = 30000
    /\ res[r].json.foundPhrases = << >> /\ res[r].json.suspiciousLinks = << >>
    /\ includesText(body[r].payload.text, "winner")
    /\ heuristicLinkCheck(body[r].payload.links[51]) # << >>

\* the response of a handler that serves the request alone
Alone(b, sbNet, ltNet) ==
  IF b.payload.kind # "object" THEN MissingPayloadResponse
  ELSE LET scan == b.options.present /\ b.options.linkScanner
           links == sliceSeq(b.payload.links, LINK_LIMIT)
           text == sliceText(b.payload.text, TEXT_LIMIT)
           sb == googleSafeBrowsingLookup(GOOGLE_KEY, sbNet)
           ev == ThreatEvidence(sb.matches)
           fr == [options |-> b.options, links |-> links, text |-> text,
                  subject |-> b.payload.subject, snippet |-> NormSnippet(b.payload),
                  heuristicResults |-> IF scan THEN HeuristicResults(links) ELSE << >>,
                  suspiciousLinks |->
                    IF scan THEN ev.pushed \o HeuristicResults(links) ELSE << >>,
                  sb |-> sb]
       IN IF scan /\ ev.threw THEN FaultResponse("Cannot read properties of null")
          ELSE Result(fr, IF GrammarWanted(b.options, text)
                          THEN GrammarField(languageToolCheck(ltNet)) ELSE NULL)

\* C8: with several requests in flight, interleaved at their awaits, the
\* response of each is the one its own body and the replies to its own calls
\* give, whatever the other requests are and however they end.
C8_Isolation ==
  \A r \in Reqs : pc[r] = "done" => res[r] = Alone(body[r], sbReply[r], ltReply[r])

C8_Witness ==
  \E r1, r2 \in Reqs :
    /\ r1 # r2 /\ body[r1] # body[r2]
    /\ pc[r1] = "done" /\ res[r1].status = 500
    /\ pc[r2] = "done" /\ Succeeded(r2) /\ res[r2].json.overall = "warning"
    /\ LTFailed(r1) = FALSE /\ SBFailed(r2)

\* C9: every entry of the match list of a successful threat-list reply yields
\* evidence under its resolved url, or under (unknown), and the request ends
\* with a 200 response that is suspicious.
C9_EveryMatchYieldsEvidence ==
  \A r \in Reqs :
    (pc[r] = "done" /\ sbReply[r].kind = "ok" /\ Len(sbReply[r].matches) > 0) =>
      /\ Succeeded(r)
      /\ res[r].json.overall = "suspicious"
      /\ \A i \in 1..Len(sbReply[r].matches) :
           LET m == sbReply[r].matches[i]
               url == IF ~m.isNull /\ m.threatUrl # "" THEN m.threatUrl
                      ELSE IF ~m.isNull /\ m.threatEntryUrl # "" THEN m.threatEntryUrl
                      ELSE "(unknown)"
           IN \E k \in 1..Len(res[r].json.suspiciousLinks) :
                res[r].json.suspiciousLinks[k].url = url

\* C10: in every 200 response the verdict is suspicious exactly when the
\* returned suspiciousLinks or foundPhrases is not empty, and warning only when
\* the returned grammar holds more than 15 issues.
C10_VerdictMatchesResponse ==
  \A r \in Reqs : Succeeded(r) =>
    LET j == res[r].json
    IN /\ j.overall = "suspicious" <=> (Len(j.suspiciousLinks) > 0 \/ Len(j.foundPhrases) > 0)
       /\ j.overall = "warning" =>
            /\ DOMAIN j.grammar = { "matches" }
            /\ Len(j.grammar.matches) > 15
       /\ j.overall \in { "safe", "warning", "suspicious" }

C10_Witness ==
  \E r \in Reqs :
    /\ Succeeded(r) /\ res[r].json.overall = "suspicious"
    /\ res[r].json.foundPhrases = << >>
    /\ Len(res[r].json.suspiciousLinks) = 1
    /\ Len(Locals(r).suspiciousLinks) > 1
    /\ DOMAIN res[r].json.grammar = { "matches" } /\ Len(res[r].json.grammar.matches) > 15

====
